---- MODULE Spec2Model ----
(***************************************************************************)
(* Item service: the data access layer (crud.py) and the request layer     *)
(* (webapp.py) over one table of item rows.                                *)
(*                                                                         *)
(* The table is a sequence of rows in the order a full scan returns them.  *)
(* Text values are sequences of one-character strings; an optional value   *)
(* is None (the empty sequence) or Some(v) (a one-element sequence).       *)
(***************************************************************************)
EXTENDS Integers, Sequences, FiniteSets

VARIABLES
    db,        \* the items table: rows in scan order
    like_ci,   \* whether the store's LIKE ignores ASCII case (SQLite does, PostgreSQL does not)
    resp,      \* the response of the latest request handled start to finish
    deleted,   \* history: identifiers a DELETE request has answered 200 for
    sess       \* per concurrent request: its position and its session's loaded object

vars == <<db, like_ci, resp, deleted, sess>>

(***************************************************************************)
(* Bounds and input sets.                                                  *)
(***************************************************************************)
MaxId == 2

\* identifiers the concurrent requests contend for
MaxConcId == 1

BulkMax == 102

IdSpace == 1..MaxId

\* identifiers a request may name: every assignable one and one that never exists
ReqIds == 1..(MaxId + 1)

ConcIds == 1..MaxConcId

None == <<>>

Some(v) == <<v>>

PayloadSeq ==
    << [name |-> <<"a", "b">>, description |-> <<"x", "y">>, price |-> 10, quantity |-> 0],
       [name |-> <<"a", "b">>, description |-> <<"x", "y">>, price |-> 20, quantity |-> 1],
       [name |-> <<"A", "_">>, description |-> <<"y">>,      price |-> 0,  quantity |-> 1] >>

Payloads == {PayloadSeq[k] : k \in 1..Len(PayloadSeq)}

NameArgs == {None, Some(<<>>), Some(<<"a">>), Some(<<"_">>)}

DescriptionArgs == {None, Some(<<"x">>)}

PriceArgs == {None, Some(0), Some(10)}

QuantityArgs == {None, Some(0), Some(1)}

SkipArgs == {0, 1, 2}

LimitArgs == {0, 1, 2, 3}

BulkSkipArgs == {0, 1, 9, 99, 101}

BulkLimitArgs == {0, 2, 10, 100, 101}

Requests == {"r1", "r2"}

(***************************************************************************)
(* Sequence helpers standing for the store's query operators.              *)
(***************************************************************************)
Min(a, b) == IF a <= b THEN a ELSE b

Max(a, b) == IF a >= b THEN a ELSE b

\* .offset(n): drop the first n rows
RECURSIVE Offset(_, _)
Offset(rows, n) ==
    IF n <= 0 \/ rows = <<>> THEN rows ELSE Offset(Tail(rows), n - 1)

\* .limit(n): keep the first n rows
RECURSIVE Limit(_, _)
Limit(rows, n) ==
    IF n <= 0 \/ rows = <<>> THEN <<>> ELSE <<Head(rows)>> \o Limit(Tail(rows), n - 1)

\* .first(): the first row or None
First(rows) == IF rows = <<>> THEN None ELSE Some(Head(rows))

Ids(rows) == {rows[k].id : k \in 1..Len(rows)}

\* case folding of the store's LIKE when its collation ignores ASCII case
Fold(c, ci) == IF ci /\ c = "A" THEN "a" ELSE c

\* SQL  str LIKE pat : % matches any run of characters, _ any one character
RECURSIVE Like(_, _, _)
Like(str, pat, ci) ==
    IF pat = <<>> THEN str = <<>>
    ELSE IF Head(pat) = "%"
         THEN Like(str, Tail(pat), ci) \/ (str # <<>> /\ Like(Tail(str), pat, ci))
         ELSE /\ str # <<>>
              /\ (Head(pat) = "_" \/ Fold(Head(pat), ci) = Fold(Head(str), ci))
              /\ Like(Tail(str), Tail(pat), ci)

\* Column.contains(other):  column LIKE '%' || other || '%', other not escaped
Contains(str, other, ci) == Like(str, <<"%">> \o other \o <<"%">>, ci)

Row(id, item) ==
    [id |-> id, name |-> item.name, description |-> item.description,
     price |-> item.price, quantity |-> item.quantity]

Fields(row) ==
    [name |-> row.name, description |-> row.description,
     price |-> row.price, quantity |-> row.quantity]

\* identifiers the store may assign to a new row: above every identifier in use
NewIds(rows) == {i \in IdSpace : \A j \in Ids(rows) : j < i}

(***************************************************************************)
(* Data access layer (crud.py).  An operation that writes returns the new  *)
(* table as .db and its return value as .ret.                              *)
(***************************************************************************)
get_item(rows, item_id) == First(SelectSeq(rows, LAMBDA r : r.id = item_id))

\* faulty variant: limit applied before offset
get_items_limit_first(rows, skip, limit) == Offset(Limit(rows, limit), skip)

\* faulty variant: limit ignored
get_items_unlimited(rows, skip, limit) == Offset(rows, skip)

get_items(rows, skip, limit) == Limit(Offset(rows, skip), limit)

\* db.refresh(db_item): reload the object's row by primary key
Refresh(rows, id) == get_item(rows, id)

\* db.add(db_item); db.commit(): INSERT, the store assigning the identifier
CommitInsert(rows, item, id) == Append(rows, Row(id, item))

\* faulty variant: the new object is returned but never committed
create_item_uncommitted(rows, item, id) == [db |-> rows, ret |-> Some(Row(id, item))]

create_item(rows, item, id) ==
    LET rows2 == CommitInsert(rows, item, id)
    IN  [db |-> rows2, ret |-> Refresh(rows2, id)]

\* the attributes whose setattr changed the loaded value
Dirty(loaded, item) == {f \in DOMAIN item : item[f] # loaded[f]}

\* faulty variant: the UPDATE leaves the quantity column out
CommitUpdate_skip_quantity(rows, loaded, item) ==
    [k \in 1..Len(rows) |->
        IF rows[k].id = loaded.id
        THEN [rows[k] EXCEPT !.name = item.name, !.description = item.description,
                             !.price = item.price]
        ELSE rows[k]]

\* db.commit() after the setattr loop: UPDATE of the changed columns by primary key
CommitUpdate(rows, loaded, item) ==
    [k \in 1..Len(rows) |->
        IF rows[k].id = loaded.id
        THEN [f \in DOMAIN rows[k] |->
                 IF f \in Dirty(loaded, item) THEN item[f] ELSE rows[k][f]]
        ELSE rows[k]]

\* faulty variant: a missing record is inserted instead of reported
update_item_upsert(rows, item_id, item) ==
    LET rows2 == IF get_item(rows, item_id) = None
                 THEN Append(rows, Row(item_id, item))
                 ELSE [k \in 1..Len(rows) |->
                          IF rows[k].id = item_id THEN Row(item_id, item) ELSE rows[k]]
    IN  [db |-> rows2, ret |-> get_item(rows2, item_id)]

update_item(rows, item_id, item) ==
    LET db_item == get_item(rows, item_id)
    IN  IF db_item = None
        THEN [db |-> rows, ret |-> None]
        ELSE LET rows2 == CommitUpdate(rows, db_item[1], item)
             IN  [db |-> rows2, ret |-> Refresh(rows2, item_id)]

\* faulty variant: the DELETE is never flushed
CommitDelete_unflushed(rows, loaded) == rows

\* db.delete(db_item); db.commit(): DELETE by primary key
CommitDelete(rows, loaded) == SelectSeq(rows, LAMBDA r : r.id # loaded.id)

\* faulty variant: the record is returned but not removed
delete_item_kept(rows, item_id) == [db |-> rows, ret |-> get_item(rows, item_id)]

delete_item(rows, item_id) ==
    LET db_item == get_item(rows, item_id)
    IN  IF db_item = None
        THEN [db |-> rows, ret |-> None]
        ELSE [db |-> CommitDelete(rows, db_item[1]), ret |-> db_item]

\* Python truthiness of an optional string: None and "" are false
Truthy(s) == s # None /\ s[1] # <<>>

\* faulty variant: the numeric criteria tested by truthiness, so that 0 counts as omitted
search_items_truthy(rows, ci, name, description, min_price, max_price, quantity) ==
    LET given(v) == v # None /\ v[1] # 0
        q1 == IF Truthy(name)
              THEN SelectSeq(rows, LAMBDA r : Contains(r.name, name[1], ci)) ELSE rows
        q2 == IF Truthy(description)
              THEN SelectSeq(q1, LAMBDA r : Contains(r.description, description[1], ci))
              ELSE q1
        q3 == IF given(min_price)
              THEN SelectSeq(q2, LAMBDA r : r.price >= min_price[1]) ELSE q2
        q4 == IF given(max_price)
              THEN SelectSeq(q3, LAMBDA r : r.price <= max_price[1]) ELSE q3
        q5 == IF given(quantity)
              THEN SelectSeq(q4, LAMBDA r : r.quantity = quantity[1]) ELSE q4
    IN  q5

search_items(rows, ci, name, description, min_price, max_price, quantity) ==
    LET q0 == rows
        q1 == IF Truthy(name)
              THEN SelectSeq(q0, LAMBDA r : Contains(r.name, name[1], ci)) ELSE q0
        q2 == IF Truthy(description)
              THEN SelectSeq(q1, LAMBDA r : Contains(r.description, description[1], ci))
              ELSE q1
        q3 == IF min_price # None
              THEN SelectSeq(q2, LAMBDA r : r.price >= min_price[1]) ELSE q2
        q4 == IF max_price # None
              THEN SelectSeq(q3, LAMBDA r : r.price <= max_price[1]) ELSE q3
        q5 == IF quantity # None
              THEN SelectSeq(q4, LAMBDA r : r.quantity = quantity[1]) ELSE q4
    IN  q5

(***************************************************************************)
(* Request layer (webapp.py).                                              *)
(***************************************************************************)
DefaultSkip == 0

CrudDefaultLimit == 100

RouteDefaultLimit == 10

Ok(op, req, body) == [op |-> op, req |-> req, status |-> 200, body |-> body]

\* raise HTTPException(status_code=404, detail="Item not found")
NotFound(op, req) == [op |-> op, req |-> req, status |-> 404, body |-> None]

\* faulty variant: the None check is missing
OrNotFound_unchecked(op, req, db_item) == Ok(op, req, db_item)

\* a route that answers 404 when the data access layer returns None
OrNotFound(op, req, db_item) ==
    IF db_item = None THEN NotFound(op, req) ELSE Ok(op, req, db_item)

NoResponse == [op |-> "none", req |-> <<>>, status |-> 0, body |-> None]

Idle == [pc |-> "idle"]

Init ==
    /\ db = <<>>
    /\ like_ci \in BOOLEAN
    /\ resp = NoResponse
    /\ deleted = {}
    /\ sess = [r \in Requests |-> Idle]

\* POST /items/
CreateItem ==
    \E item \in Payloads, id \in NewIds(db) :
        LET r == create_item(db, item, id)
        IN  /\ db' = r.db
            /\ resp' = Ok("create", [item |-> item], r.ret)
            /\ UNCHANGED <<like_ci, deleted, sess>>

\* GET /items/?skip=&limit=
ReadItems(skips, limits) ==
    \E skip \in skips, limit \in limits :
        /\ resp' = Ok("list", [skip |-> Some(skip), limit |-> Some(limit), via |-> "http"],
                      get_items(db, skip, limit))
        /\ UNCHANGED <<db, like_ci, deleted, sess>>

\* GET /items/ with neither parameter given
ReadItemsDefault ==
    /\ resp' = Ok("list", [skip |-> None, limit |-> None, via |-> "http"],
                  get_items(db, DefaultSkip, RouteDefaultLimit))
    /\ UNCHANGED <<db, like_ci, deleted, sess>>

\* crud.get_items(db) called with neither parameter given
GetItemsDefault ==
    /\ resp' = Ok("list", [skip |-> None, limit |-> None, via |-> "crud"],
                  get_items(db, DefaultSkip, CrudDefaultLimit))
    /\ UNCHANGED <<db, like_ci, deleted, sess>>

\* GET /items/{item_id}
ReadItem ==
    \E item_id \in ReqIds :
        /\ resp' = OrNotFound("get", [id |-> item_id], get_item(db, item_id))
        /\ UNCHANGED <<db, like_ci, deleted, sess>>

\* PUT /items/{item_id}
UpdateItem ==
    \E item_id \in ReqIds, item \in Payloads :
        LET r == update_item(db, item_id, item)
        IN  /\ db' = r.db
            /\ resp' = OrNotFound("update", [id |-> item_id, item |-> item], r.ret)
            /\ UNCHANGED <<like_ci, deleted, sess>>

\* DELETE /items/{item_id}
DeleteItem ==
    \E item_id \in ReqIds :
        LET r == delete_item(db, item_id)
        IN  /\ db' = r.db
            /\ resp' = OrNotFound("delete", [id |-> item_id], r.ret)
            /\ deleted' = IF r.ret = None THEN deleted ELSE deleted \cup {item_id}
            /\ UNCHANGED <<like_ci, sess>>

\* GET /items/search/
SearchItems ==
    \E name \in NameArgs, description \in DescriptionArgs,
       min_price \in PriceArgs, max_price \in PriceArgs, quantity \in QuantityArgs :
        /\ resp' = Ok("search",
                      [name |-> name, description |-> description,
                       min_price |-> min_price, max_price |-> max_price,
                       quantity |-> quantity],
                      search_items(db, like_ci, name, description,
                                   min_price, max_price, quantity))
        /\ UNCHANGED <<db, like_ci, deleted, sess>>

NextCrud ==
    \/ CreateItem
    \/ ReadItems(SkipArgs, LimitArgs)
    \/ ReadItemsDefault
    \/ GetItemsDefault
    \/ ReadItem
    \/ UpdateItem
    \/ DeleteItem

NextSearch ==
    \/ CreateItem
    \/ SearchItems

Next == NextCrud \/ SearchItems

Spec == Init /\ [][Next]_vars

SpecCrud == Init /\ [][NextCrud]_vars

SpecSearch == Init /\ [][NextSearch]_vars

(***************************************************************************)
(* Concurrent requests.  FastAPI runs each synchronous route in a worker   *)
(* thread with a session of its own (get_db); a request's store calls      *)
(* (SELECT, the statement flushed by commit, the SELECT of refresh) are    *)
(* each atomic in the store, and other requests' calls may run between     *)
(* them.  sess[r] is request r's position and its session's loaded object. *)
(***************************************************************************)
Done(status, body) == [pc |-> "done", status |-> status, body |-> body]

Free(r) == sess[r].pc \in {"idle", "done"}

\* crud.update_item line 49: db_item = get_item(db, item_id)
UpdateBegin(r) ==
    /\ Free(r)
    /\ \E item_id \in ConcIds, item \in Payloads :
          LET db_item == get_item(db, item_id)
          IN  sess' = [sess EXCEPT ![r] =
                          IF db_item = None
                          THEN Done(404, None)
                          ELSE [pc |-> "update_commit", item |-> item,
                                db_item |-> db_item[1]]]
    /\ UNCHANGED <<db, like_ci, resp, deleted>>

\* crud.update_item lines 52-54: setattr loop and db.commit(); an UPDATE that
\* matches no row raises StaleDataError, which the route leaves to become a 500
UpdateCommit(r) ==
    /\ sess[r].pc = "update_commit"
    /\ LET loaded == sess[r].db_item
           item == sess[r].item
       IN  IF Dirty(loaded, item) = {}
           THEN /\ sess' = [sess EXCEPT ![r] = [pc |-> "refresh", id |-> loaded.id]]
                /\ db' = db
           ELSE IF get_item(db, loaded.id) = None
                THEN /\ sess' = [sess EXCEPT ![r] = Done(500, None)]
                     /\ db' = db
                ELSE /\ sess' = [sess EXCEPT ![r] = [pc |-> "refresh", id |-> loaded.id]]
                     /\ db' = CommitUpdate(db, loaded, item)
    /\ UNCHANGED <<like_ci, resp, deleted>>

\* crud.create_item line 37, crud.update_item line 55: db.refresh(db_item); a row
\* that is gone raises InvalidRequestError, which becomes a 500
RefreshStep(r) ==
    /\ sess[r].pc = "refresh"
    /\ LET db_item == Refresh(db, sess[r].id)
       IN  sess' = [sess EXCEPT ![r] =
                       IF db_item = None THEN Done(500, None) ELSE Done(200, db_item)]
    /\ UNCHANGED <<db, like_ci, resp, deleted>>

\* crud.delete_item line 66: db_item = get_item(db, item_id)
DeleteBegin(r) ==
    /\ Free(r)
    /\ \E item_id \in ConcIds :
          LET db_item == get_item(db, item_id)
          IN  sess' = [sess EXCEPT ![r] =
                          IF db_item = None
                          THEN Done(404, None)
                          ELSE [pc |-> "delete_commit", db_item |-> db_item[1]]]
    /\ UNCHANGED <<db, like_ci, resp, deleted>>

\* crud.delete_item lines 69-71: db.delete(db_item); db.commit(); return db_item
\* (a DELETE that matches no row is only warned about)
DeleteCommit(r) ==
    /\ sess[r].pc = "delete_commit"
    /\ db' = CommitDelete(db, sess[r].db_item)
    /\ sess' = [sess EXCEPT ![r] = Done(200, Some(sess[r].db_item))]
    /\ UNCHANGED <<like_ci, resp, deleted>>

\* crud.create_item lines 34-36: db.add(db_item); db.commit()
CreateCommit(r) ==
    /\ Free(r)
    /\ \E item \in Payloads, id \in NewIds(db) \cap ConcIds :
          /\ db' = CommitInsert(db, item, id)
          /\ sess' = [sess EXCEPT ![r] = [pc |-> "refresh", id |-> id]]
    /\ UNCHANGED <<like_ci, resp, deleted>>

NextConc ==
    \E r \in Requests :
        \/ UpdateBegin(r)
        \/ UpdateCommit(r)
        \/ RefreshStep(r)
        \/ DeleteBegin(r)
        \/ DeleteCommit(r)
        \/ CreateCommit(r)

SpecConc == Init /\ [][NextConc]_vars

(***************************************************************************)
(* Listing over a large table: the table holds n rows created in order,    *)
(* and only list requests run.                                             *)
(***************************************************************************)
BulkStore(n) == [k \in 1..n |-> Row(k, PayloadSeq[(k % Len(PayloadSeq)) + 1])]

InitList ==
    /\ db \in {BulkStore(n) : n \in 0..BulkMax}
    /\ like_ci \in BOOLEAN
    /\ resp = NoResponse
    /\ deleted = {}
    /\ sess = [r \in Requests |-> Idle]

NextList ==
    \/ ReadItems(BulkSkipArgs, BulkLimitArgs)
    \/ ReadItemsDefault
    \/ GetItemsDefault

SpecList == InitList /\ [][NextList]_vars

(***************************************************************************)
(* Properties.                                                             *)
(***************************************************************************)
\* s occurs in str as a run of equal characters (case-sensitive, no wildcards)
IsSubstring(s, str) ==
    \E i \in 0..(Len(str) - Len(s)) : \A k \in 1..Len(s) : str[i + k] = s[k]

InRows(r, rows) == \E k \in 1..Len(rows) : rows[k] = r

\* C1: a create adds exactly one record under an identifier no record had,
\* answers with that record, and a get on the returned identifier then yields
\* the payload's name, description, price and quantity.
C1_CreateThenGet ==
    [][resp'.op = "create" =>
          /\ resp'.status = 200
          /\ resp'.body # None
          /\ resp'.body[1].id \notin Ids(db)
          /\ Len(db') = Len(db) + 1
          /\ \A k \in 1..Len(db) : db'[k] = db[k]
          /\ get_item(db', resp'.body[1].id) = resp'.body
          /\ Fields(get_item(db', resp'.body[1].id)[1]) = resp'.req.item]_vars

C1_Witness ==
    /\ resp.op = "create"
    /\ Len(db) = 2
    /\ get_item(db, resp.body[1].id) # None
    /\ Fields(get_item(db, resp.body[1].id)[1]) = resp.req.item
    /\ Fields(db[1]) # resp.req.item

\* C2: an update of an identifier no record has answers 404 and leaves the
\* store as it was.
C2_UpdateMissing ==
    [][(resp'.op = "update" /\ get_item(db, resp'.req.id) = None) =>
          /\ resp'.status = 404
          /\ resp'.body = None
          /\ db' = db]_vars

C2_Witness ==
    /\ resp.op = "update"
    /\ resp.status = 404
    /\ Len(db) = 2
    /\ resp.req.id \notin Ids(db)

\* C3 as claimed: once a delete of an identifier has succeeded, a get on that
\* identifier is absent after any later operations on other items, creates
\* included.
C3_DeletedStaysAbsent == \A i \in deleted : get_item(db, i) = None

\* C3 amended: a successful delete leaves its identifier absent, and an
\* identifier that was deleted and is absent becomes present again only by a
\* create that the store assigns that identifier.
C3_AbsentUntilReassigned ==
    [][/\ (resp'.op = "delete" /\ resp'.status = 200) =>
              /\ get_item(db, resp'.req.id) # None
              /\ get_item(db', resp'.req.id) = None
              /\ Len(db') = Len(db) - 1
       /\ \A i \in deleted :
              (get_item(db, i) = None /\ get_item(db', i) # None) =>
                  (resp'.op = "create" /\ resp'.body = get_item(db', i))]_vars

C3_Witness ==
    /\ resp.op \in {"create", "update"}
    /\ resp.status = 200
    /\ \E i \in deleted : get_item(db, i) = None /\ resp.body[1].id # i

\* C4: an update of an existing record sets its four fields to the payload,
\* answers with the updated record, keeps its identifier and position, and
\* leaves every other record as it was.
C4_UpdateOverwrites ==
    [][(resp'.op = "update" /\ get_item(db, resp'.req.id) # None) =>
          /\ resp'.status = 200
          /\ resp'.body = Some(Row(resp'.req.id, resp'.req.item))
          /\ Len(db') = Len(db)
          /\ \A k \in 1..Len(db) :
                 db'[k] = IF db[k].id = resp'.req.id
                          THEN Row(resp'.req.id, resp'.req.item)
                          ELSE db[k]]_vars

C4_Witness ==
    /\ resp.op = "update"
    /\ resp.status = 200
    /\ Len(db) = 2
    /\ db[2] = Row(resp.req.id, resp.req.item)
    /\ Fields(db[1]) # resp.req.item

\* C5: GET, PUT and DELETE on /items/{id} answer 404 exactly when no record
\* has the identifier when the request is made, and 200 otherwise.
C5_NotFoundIffAbsent ==
    [][resp'.op \in {"get", "update", "delete"} =>
          /\ resp'.status \in {200, 404}
          /\ resp'.status = 404 <=> get_item(db, resp'.req.id) = None]_vars

C5_Witness ==
    /\ resp.op = "delete"
    /\ resp.status = 404
    /\ db # <<>>

C7_DefaultLimit100 ==
    (resp.op = "list" /\ resp.req.skip = None /\ resp.req.limit = None) =>
        resp.body = SubSeq(db, 1, Min(Len(db), 100))

\* C7 amended: with neither parameter given, the data access layer's list
\* returns the first min(n, 100) rows and GET /items/ the first min(n, 10).
C7_DefaultLimitByLayer ==
    (resp.op = "list" /\ resp.req.skip = None /\ resp.req.limit = None) =>
        resp.body = SubSeq(db, 1, Min(Len(db), IF resp.req.via = "crud" THEN 100 ELSE 10))

C7_Witness ==
    /\ resp.op = "list"
    /\ resp.req.skip = None
    /\ resp.req.via = "crud"
    /\ Len(db) > 100
    /\ Len(resp.body) = 100

\* a row passes the price and quantity criteria of a search request
NumericCriteria(r, req) ==
    /\ req.min_price # None => r.price >= req.min_price[1]
    /\ req.max_price # None => r.price <= req.max_price[1]
    /\ req.quantity # None => r.quantity = req.quantity[1]

\* C8: a search returns exactly the stored rows that pass every supplied
\* criterion: price >= min_price, price <= max_price, quantity equal, the name
\* criterion alone and the description criterion alone; an omitted criterion
\* filters nothing and a supplied 0 filters.
C8_SearchExact ==
    resp.op = "search" =>
        /\ resp.status = 200
        /\ resp.body =
              SelectSeq(db, LAMBDA r :
                  /\ NumericCriteria(r, resp.req)
                  /\ InRows(r, search_items(db, like_ci, resp.req.name,
                                            None, None, None, None))
                  /\ InRows(r, search_items(db, like_ci, None, resp.req.description,
                                            None, None, None)))

C8_Witness ==
    /\ resp.op = "search"
    /\ resp.req.max_price = Some(0)
    /\ resp.req.quantity = Some(1)
    /\ resp.req.name = None
    /\ Len(db) = 2
    /\ Len(resp.body) = 1

\* C9: a search with a name returns only rows whose name contains it as a
\* case-sensitive literal substring, and all of them when nothing else is
\* given; likewise for the description.
C9_LiteralSubstring ==
    resp.op = "search" =>
        /\ resp.req.name # None =>
              \A k \in 1..Len(resp.body) : IsSubstring(resp.req.name[1], resp.body[k].name)
        /\ resp.req.description # None =>
              \A k \in 1..Len(resp.body) :
                  IsSubstring(resp.req.description[1], resp.body[k].description)
        /\ (/\ resp.req.name # None
            /\ resp.req.description = None
            /\ resp.req.min_price = None
            /\ resp.req.max_price = None
            /\ resp.req.quantity = None) =>
              resp.body = SelectSeq(db, LAMBDA r : IsSubstring(resp.req.name[1], r.name))

\* C10 as claimed: while a request is between its first store access and its
\* commit, no other request's write takes effect, and no request ends in an
\* outcome that no serial order gives (a server error).
C10_NoWriteInBetween ==
    [][\A r \in Requests :
          /\ (sess[r].pc \in {"update_commit", "delete_commit"} /\ sess'[r] = sess[r])
                 => db' = db
          /\ sess'[r].pc = "done" => sess'[r].status \in {200, 404}]_vars

\* C10 amended: an update or delete commits in a store call after the one
\* that read the record; when the record is still as it was read, the commit
\* has the serial effect: the update sets the record's fields to the payload
\* and the delete removes the record, other records untouched.
C10_CommitOnUnchangedRow ==
    [][\A r \in Requests :
          /\ (/\ sess[r].pc = "update_commit"
              /\ sess'[r] # sess[r]
              /\ get_item(db, sess[r].db_item.id) = Some(sess[r].db_item)) =>
                 /\ sess'[r] = [pc |-> "refresh", id |-> sess[r].db_item.id]
                 /\ Len(db') = Len(db)
                 /\ \A k \in 1..Len(db) :
                        db'[k] = IF db[k].id = sess[r].db_item.id
                                 THEN Row(db[k].id, sess[r].item)
                                 ELSE db[k]
          /\ (/\ sess[r].pc = "delete_commit"
              /\ sess'[r] # sess[r]
              /\ get_item(db, sess[r].db_item.id) = Some(sess[r].db_item)) =>
                 /\ sess'[r] = Done(200, Some(sess[r].db_item))
                 /\ db' = SelectSeq(db, LAMBDA x : x # sess[r].db_item)]_vars

C10_Witness ==
    \E r1, r2 \in Requests :
        /\ r1 # r2
        /\ sess[r1].pc = "refresh"
        /\ sess[r2].pc = "update_commit"
        /\ sess[r2].db_item.id = sess[r1].id
        /\ get_item(db, sess[r1].id) # None
        /\ get_item(db, sess[r1].id) # Some(sess[r2].db_item)
====
